---- MODULE Spec2Model ----
(***************************************************************************)
(* Draft engine of WooCombine (backend/routes/drafts.py).                  *)
(*                                                                         *)
(* One draft document, its draft_teams, draft_picks, coach_rankings and    *)
(* team_rosters collections, and the wall clock.  Every HTTP handler is    *)
(* one action of Spec (requests served one at a time).  ConcSpec serves    *)
(* overlapping make_pick / auto_pick requests: each store read and each    *)
(* store write of a request is a step of its own.  SchedSpec exercises     *)
(* the pure scheduler function get_pick_team on bounded inputs.            *)
(* RoundsSpec exercises the num_rounds computation of start_draft,         *)
(* RosterSpec picks out a draft of two rounds one request at a time, and   *)
(* FinalPickSpec serves overlapping requests for the last pick of a draft. *)
(* TeamSpec manages the teams of a draft before and after its start,       *)
(* StartRaceSpec overlaps add_team and remove_team with start_draft, and   *)
(* PauseRaceSpec overlaps pause_draft with a pick request.  CrossSpec      *)
(* serves team requests while draft_teams also holds a team of another     *)
(* draft, LiveSpec is a timed draft under fairness of the clock, of resume *)
(* and of auto_pick, and ClockSpec is a timed draft picked before and      *)
(* after its deadlines.                                                    *)
(*                                                                         *)
(* Timestamps that no handler ever reads back (created_at, started_at,     *)
(* updated_at) and display fields (name, coach_name, visibility, trade     *)
(* settings) are not part of the state.                                    *)
(***************************************************************************)
EXTENDS Integers, Sequences, FiniteSets, TLC

\* ------------------------------------------------------------------ bounds
MaxTeams == 2       \* add_team is offered until the draft has this many teams
NumPlayers == 2     \* players of the event that match the draft's age_group
MaxTime == 1        \* the clock stops ticking here
MaxRequests == 2    \* overlapping pick requests in ConcSpec
MaxSchedTeams == 3  \* longest team_order handed to get_pick_team in SchedSpec
MaxSchedPick == 9   \* largest overall pick handed to get_pick_team in SchedSpec
MaxRoundsTeams == 3   \* most teams of a draft started in RoundsSpec
MaxRoundsPlayers == 7 \* most eligible players of a draft started in RoundsSpec
MaxRosterPlayers == 4 \* player ids handed to make_pick in RosterSpec
MaxRaceTeams == 3     \* add_team is offered up to this many teams in StartRaceSpec
MaxLiveTeams == 3     \* most teams of a draft run by its pick clock in LiveSpec
LiveMaxTime == 2      \* LiveSpec: pauses come in these first seconds, then the clock origin slides

\* Python's None, for the nullable integer fields of the documents
None == -99
\* Python's None, for the nullable uid of a team's coach
NoCoach == "none"

\* ------------------------------------------------------------- input sets
Admin == "admin"                       \* created_by of the draft
Users == {Admin, "c1", "c2"}           \* authenticated callers
CoachInputs == {NoCoach, "c1"}         \* TeamCreate.coach_user_id
Players == 1..NumPlayers               \* eligible players (event, age_group)
PlayerIds == 1..(NumPlayers + 1)       \* PickCreate.player_id; the last id is no player
DraftTypes == {"snake", "linear"}      \* DraftCreate.draft_type
RoundsInputs == {None, -1, 2}          \* DraftCreate.num_rounds (unvalidated Optional[int])
TimerInputs == {0, 1}                  \* DraftCreate.pick_timer_seconds
\* RankingsUpdate.ranked_player_ids: the first entry is no eligible player
RankingInputs == {<<NumPlayers + 1, 2>>}
Requests == 1..MaxRequests
DraftId == 1                           \* draft_id path parameter: the draft the requests address
OtherDraftId == 2                      \* draft_id of another draft of the league

VARIABLES
    draft,           \* the document drafts/{draft_id}
    draft_teams,     \* collection draft_teams: set of team documents
    draft_picks,     \* collection draft_picks: set of pick documents
    coach_rankings,  \* collection coach_rankings: set of ranking documents
    team_rosters,    \* collection team_rosters: set of roster documents
    now,             \* datetime.now(timezone.utc)
    last,            \* the last response sent: operation and detail
    reqs,            \* ConcSpec: position and locals of each in-flight request
    sched,           \* SchedSpec: inputs and result of get_pick_team
    rounds           \* RoundsSpec: inputs and result of the num_rounds of start_draft

vars == <<draft, draft_teams, draft_picks, coach_rankings, team_rosters, now, last, reqs, sched, rounds>>
store == <<draft, draft_teams, draft_picks, coach_rankings, team_rosters>>

\* ---------------------------------------------------------------- helpers
Reverse(s) == [i \in 1..Len(s) |-> s[Len(s) + 1 - i]]

Max(a, b) == IF a >= b THEN a ELSE b

\* all orderings of a finite set, as sequences
Orderings(S) == {s \in [1..Cardinality(S) -> S] : \A i, j \in 1..Cardinality(S) : i # j => s[i] # s[j]}

\* DocumentReference.update(fields): overwrite the named fields, keep the rest
Update(doc, fields) == [f \in DOMAIN doc |-> IF f \in DOMAIN fields THEN fields[f] ELSE doc[f]]

\* generate_id(): an id no document of the collection carries
FreshId(coll) == CHOOSE i \in 1..(Cardinality(coll) + 1) : \A d \in coll : d.id # i

\* the draft_teams query where("draft_id", "==", draft_id)
teams_query(teams, draft_id) == {t \in teams : t.draft_id = draft_id}

OK == "ok"

\* ------------------------------------------------------------ PickScheduler
\* a scheduler that forgets the snake alternation
calculate_snake_order_linear(team_order, round_num) == team_order

calculate_snake_order(team_order, round_num) ==
    IF round_num % 2 = 1 THEN team_order ELSE Reverse(team_order)

get_pick_team(d, overall_pick) ==
    LET num_teams == Len(d.team_order) IN
    IF num_teams = 0 THEN None
    ELSE LET round_num == ((overall_pick - 1) \div num_teams) + 1
             pick_in_round == (overall_pick - 1) % num_teams
             order == IF d.draft_type = "snake"
                      THEN calculate_snake_order(d.team_order, round_num)
                      ELSE d.team_order
         IN order[pick_in_round + 1]

\* ------------------------------------------------------------ create_draft
NewDraft(draft_type, num_rounds, timer, auto) ==
    [ exists |-> TRUE,       \* draft_doc.exists; FALSE once the document is deleted
      status |-> "setup",
      draft_type |-> draft_type,
      num_teams |-> 0,
      num_rounds |-> num_rounds,
      pick_timer_seconds |-> timer,
      auto_pick_on_timeout |-> auto,
      team_order |-> <<>>,
      current_round |-> 0,
      current_pick |-> 0,
      current_team_id |-> None,
      pick_deadline |-> None,
      completed_at |-> None,
      created_by |-> Admin ]

\* a request that has not started, and the locals a running one carries
NoDoc == [id |-> None]
IdleReq == [ pc |-> "idle", op |-> "none", user |-> NoCoach, player_id |-> None,
             draft_data |-> NoDoc, team_data |-> NoDoc, ranked_player_ids |-> <<>>,
             stream |-> <<>>, keys |-> {}, response |-> "none" ]
IdleReqs == [r \in Requests |-> IdleReq]

IdleSched == [team_order |-> <<>>, draft_type |-> "linear", overall_pick |-> 0, result |-> None]

IdleRounds == [num_rounds |-> None, player_count |-> 0, num_teams |-> 2, result |-> None]

Init ==
    /\ \E dt \in DraftTypes, nr \in RoundsInputs, tm \in TimerInputs, ap \in BOOLEAN :
           draft = NewDraft(dt, nr, tm, ap)
    /\ draft_teams = {}
    /\ draft_picks = {}
    /\ coach_rankings = {}
    /\ team_rosters = {}
    /\ now = 0
    /\ last = [op |-> "create_draft", detail |-> OK]
    /\ reqs = IdleReqs
    /\ sched = IdleSched
    /\ rounds = IdleRounds

Respond(op, detail) == last' = [op |-> op, detail |-> detail]

Reject(op, detail) == Respond(op, detail) /\ UNCHANGED store

\* a clock with a scheduler thread that withdraws the deadline when it passes
Tick_scheduled ==
    /\ now < MaxTime
    /\ now' = now + 1
    /\ IF draft.status = "active" /\ draft.pick_deadline # None /\ now + 1 >= draft.pick_deadline
       THEN /\ draft' = Update(draft, [pick_deadline |-> None])
            /\ UNCHANGED <<draft_teams, draft_picks, coach_rankings, team_rosters>>
       ELSE UNCHANGED store
    /\ UNCHANGED <<last, reqs, sched, rounds>>

\* the clock advances on its own; no handler runs
Tick ==
    /\ now < MaxTime
    /\ now' = now + 1
    /\ UNCHANGED <<store, last, reqs, sched, rounds>>

\* ------------------------------------------------- update_draft, delete_draft
\* DraftUpdate bodies: the fields that are not None
UpdateInputs ==
    {[draft_type |-> dt] : dt \in DraftTypes}
    \cup {[num_rounds |-> nr] : nr \in RoundsInputs \ {None}}
    \cup {[pick_timer_seconds |-> tm] : tm \in TimerInputs}
    \cup {[auto_pick_on_timeout |-> ap] : ap \in BOOLEAN}

\* an update_draft that skips the status check
update_draft_allowed_always(draft_data) == TRUE

update_draft_allowed(draft_data) == draft_data.status = "setup"

update_draft(updates) ==
    /\ UNCHANGED <<now, reqs, sched, rounds>>
    /\ IF ~draft.exists
       THEN Reject("update_draft", "Draft not found")
       ELSE IF ~update_draft_allowed(draft)
       THEN Reject("update_draft", "Cannot modify draft after it has started")
       ELSE /\ draft' = Update(draft, updates)
            /\ Respond("update_draft", OK)
            /\ UNCHANGED <<draft_teams, draft_picks, coach_rankings, team_rosters>>

\* what is left of drafts/{draft_id} once it is deleted: every handler that
\* reads it answers 404
DeletedDraft == Update(NewDraft("snake", None, 0, FALSE), [exists |-> FALSE])

\* the teams of the draft are deleted one by one, then the draft document
delete_draft ==
    /\ UNCHANGED <<now, reqs, sched, rounds>>
    /\ IF ~draft.exists
       THEN Reject("delete_draft", "Draft not found")
       ELSE IF draft.status # "setup"
       THEN Reject("delete_draft", "Cannot delete draft after it has started")
       ELSE /\ draft_teams' = draft_teams \ teams_query(draft_teams, DraftId)
            /\ draft' = DeletedDraft
            /\ Respond("delete_draft", OK)
            /\ UNCHANGED <<draft_picks, coach_rankings, team_rosters>>

\* ---------------------------------------------------------------- add_team
\* the team document draft_teams/{team_id}, as a set of zero or one documents
team_doc(teams, team_id) == {t \in teams : t.id = team_id}

add_team(coach) ==
    /\ Cardinality(teams_query(draft_teams, DraftId)) < MaxTeams
    /\ UNCHANGED <<now, reqs, sched, rounds>>
    /\ IF ~draft.exists
       THEN Reject("add_team", "Draft not found")
       ELSE IF draft.status # "setup"
       THEN Reject("add_team", "Cannot add teams after draft has started")
       ELSE LET current_count == Cardinality(teams_query(draft_teams, DraftId))
                team_data == [ id |-> FreshId(draft_teams),
                               draft_id |-> DraftId,
                               team_name |-> FreshId(draft_teams),
                               coach_user_id |-> coach,
                               pick_order |-> current_count + 1,
                               pre_slotted_player_ids |-> <<>> ]
            IN /\ draft_teams' = draft_teams \cup {team_data}
               /\ draft' = Update(draft, [num_teams |-> current_count + 1])
               /\ Respond("add_team", OK)
               /\ UNCHANGED <<draft_picks, coach_rankings, team_rosters>>


\* ----------------------------------- update_team, remove_team, reorder_teams
TeamIds == 1..MaxTeams                 \* team_id path parameter
\* TeamUpdate bodies: the fields that are not None
TeamUpdateInputs == {[coach_user_id |-> "c2"], [team_name |-> 0]}
\* team_ids bodies of reorder_teams: lists of distinct ids, complete or not
ReorderInputs == UNION {Orderings(S) : S \in SUBSET TeamIds}

\* the handler reads the team document only: it never looks at the draft
update_team(team_id, updates) ==
    /\ UNCHANGED <<now, reqs, sched, rounds>>
    /\ IF team_doc(draft_teams, team_id) = {}
       THEN Reject("update_team", "Team not found")
       ELSE \E team_data \in team_doc(draft_teams, team_id) :
               /\ draft_teams' = (draft_teams \ {team_data}) \cup {Update(team_data, updates)}
               /\ Respond("update_team", OK)
               /\ UNCHANGED <<draft, draft_picks, coach_rankings, team_rosters>>

\* the pick_order of the teams that stay is not touched
remove_team(team_id) ==
    /\ UNCHANGED <<now, reqs, sched, rounds>>
    /\ IF ~draft.exists
       THEN Reject("remove_team", "Draft not found")
       ELSE IF draft.status # "setup"
       THEN Reject("remove_team", "Cannot remove teams after draft has started")
       ELSE IF team_doc(draft_teams, team_id) = {}
       THEN Reject("remove_team", "Team not found")
       ELSE LET teams == {t \in draft_teams : t.id # team_id}
                new_count == Cardinality(teams_query(teams, DraftId))
            IN /\ draft_teams' = teams
               /\ draft' = Update(draft, [num_teams |-> new_count])
               /\ Respond("remove_team", OK)
               /\ UNCHANGED <<draft_picks, coach_rankings, team_rosters>>

\* number of leading entries of team_ids whose document exists: update() of
\* a missing document raises, and the loop stops there
reorder_done(teams, team_ids) ==
    LET missing == {i \in 1..Len(team_ids) : team_doc(teams, team_ids[i]) = {}}
    IN IF missing = {} THEN Len(team_ids)
       ELSE (CHOOSE i \in missing : \A j \in missing : i <= j) - 1

reorder_teams(team_ids) ==
    /\ UNCHANGED <<now, reqs, sched, rounds>>
    /\ IF ~draft.exists
       THEN Reject("reorder_teams", "Draft not found")
       ELSE IF draft.status # "setup"
       THEN Reject("reorder_teams", "Cannot reorder teams after draft has started")
       ELSE LET done == reorder_done(draft_teams, team_ids)
                place(t) == {i \in 1..done : team_ids[i] = t.id}
            IN /\ draft_teams' = {IF place(t) = {} THEN t
                                  ELSE Update(t, [pick_order |-> CHOOSE i \in place(t) : TRUE])
                                  : t \in draft_teams}
               /\ Respond("reorder_teams", IF done = Len(team_ids) THEN OK
                                           ELSE "Internal Server Error")
               /\ UNCHANGED <<draft, draft_picks, coach_rankings, team_rosters>>

\* ------------------------------------------------------------ add_pre_slot
add_pre_slot(team_id, player_id) ==
    /\ UNCHANGED <<now, reqs, sched, rounds>>
    /\ IF ~draft.exists
       THEN Reject("add_pre_slot", "Draft not found")
       ELSE IF draft.status # "setup"
       THEN Reject("add_pre_slot", "Cannot add pre-slots after draft has started")
       ELSE IF team_doc(draft_teams, team_id) = {}
       THEN Reject("add_pre_slot", "Team not found")
       ELSE \E team_data \in team_doc(draft_teams, team_id) :
            LET pre_slotted == team_data.pre_slotted_player_ids
                slotted == {pre_slotted[i] : i \in 1..Len(pre_slotted)}
            IN /\ draft_teams' =
                     IF player_id \in slotted THEN draft_teams
                     ELSE (draft_teams \ {team_data}) \cup
                          {Update(team_data, [pre_slotted_player_ids |-> Append(pre_slotted, player_id)])}
               /\ Respond("add_pre_slot", OK)
               /\ UNCHANGED <<draft, draft_picks, coach_rankings, team_rosters>>

\* ----------------------------------------------------------- save_rankings
save_rankings(user, ranked_player_ids) ==
    /\ UNCHANGED <<draft, draft_teams, draft_picks, team_rosters, now, reqs, sched, rounds>>
    /\ LET rankings == {r \in coach_rankings : r.coach_user_id = user} IN
       IF rankings # {}
       THEN \E old \in rankings :
                coach_rankings' = (coach_rankings \ {old}) \cup
                    {Update(old, [ranked_player_ids |-> ranked_player_ids])}
       ELSE coach_rankings' = coach_rankings \cup
                {[ id |-> FreshId(coach_rankings),
                   coach_user_id |-> user,
                   ranked_player_ids |-> ranked_player_ids ]}
    /\ Respond("save_rankings", OK)

\* ------------------------------------------------------------- start_draft
\* a start that keeps the teams in the order the store streamed them
SortedByPickOrder_any(teams) == Orderings(teams)

\* teams.sort(key=pick_order) is stable: documents with equal pick_order stay
\* in the order the store streamed them, which is any order
SortedByPickOrder(teams) ==
    {s \in Orderings(teams) : \A i, j \in 1..Len(s) : i < j => s[i].pick_order <= s[j].pick_order}

\* a round count that rounds the division up, so that no player is left over
start_num_rounds_ceiling(num_rounds, player_count, num_teams) ==
    IF num_rounds = None \/ num_rounds = 0
    THEN Max(1, (player_count + num_teams - 1) \div num_teams)
    ELSE num_rounds

\* "if not num_rounds": None and 0 are both falsy
start_num_rounds(num_rounds, player_count, num_teams) ==
    IF num_rounds = None \/ num_rounds = 0
    THEN Max(1, player_count \div num_teams)
    ELSE num_rounds

start_updates(draft_data, teams, t) ==
    LET team_order == [i \in 1..Len(teams) |-> teams[i].id]
        player_count == Cardinality(Players)
        num_rounds == start_num_rounds(draft_data.num_rounds, player_count, Len(teams))
        pick_deadline == IF draft_data.pick_timer_seconds > 0
                         THEN t + draft_data.pick_timer_seconds
                         ELSE None
    IN [ status |-> "active",
         team_order |-> team_order,
         num_teams |-> Len(teams),
         num_rounds |-> num_rounds,
         current_round |-> 1,
         current_pick |-> 1,
         current_team_id |-> team_order[1],
         pick_deadline |-> pick_deadline ]

start_draft ==
    /\ UNCHANGED <<now, reqs, sched, rounds>>
    /\ IF ~draft.exists
       THEN Reject("start_draft", "Draft not found")
       ELSE IF draft.status # "setup"
       THEN Reject("start_draft", "Draft already started or completed")
       ELSE IF Cardinality(teams_query(draft_teams, DraftId)) < 2
       THEN Reject("start_draft", "Need at least 2 teams to start draft")
       ELSE \E teams \in SortedByPickOrder(teams_query(draft_teams, DraftId)) :
               /\ draft' = Update(draft, start_updates(draft, teams, now))
               /\ Respond("start_draft", OK)
               /\ UNCHANGED <<draft_teams, draft_picks, coach_rankings, team_rosters>>

\* ------------------------------------------------- pause_draft, resume_draft
\* a pause that leaves the advertised deadline in place
pause_updates_keeping_deadline == [status |-> "paused"]

pause_updates == [status |-> "paused", pick_deadline |-> None]

pause_draft ==
    /\ UNCHANGED <<now, reqs, sched, rounds>>
    /\ IF ~draft.exists
       THEN Reject("pause_draft", "Draft not found")
       ELSE IF draft.status # "active"
       THEN Reject("pause_draft", "Draft is not active")
       ELSE /\ draft' = Update(draft, pause_updates)
            /\ Respond("pause_draft", OK)
            /\ UNCHANGED <<draft_teams, draft_picks, coach_rankings, team_rosters>>

\* a resume that restarts the clock only when the paused draft still has one
resume_updates_remaining(draft_data, t) ==
    [ status |-> "active",
      pick_deadline |-> IF draft_data.pick_deadline # None
                        THEN t + draft_data.pick_timer_seconds
                        ELSE None ]

resume_updates(draft_data, t) ==
    [ status |-> "active",
      pick_deadline |-> IF draft_data.pick_timer_seconds > 0
                        THEN t + draft_data.pick_timer_seconds
                        ELSE None ]

resume_draft ==
    /\ UNCHANGED <<now, reqs, sched, rounds>>
    /\ IF ~draft.exists
       THEN Reject("resume_draft", "Draft not found")
       ELSE IF draft.status # "paused"
       THEN Reject("resume_draft", "Draft is not paused")
       ELSE /\ draft' = Update(draft, resume_updates(draft, now))
            /\ Respond("resume_draft", OK)
            /\ UNCHANGED <<draft_teams, draft_picks, coach_rankings, team_rosters>>

\* ------------------------------------------------------ _create_team_rosters
\* player_ids of the picks of team_id, in the order the picks were streamed
team_players(stream, team_id) ==
    LET mine == SelectSeq(stream, LAMBDA p : p.team_id = team_id)
    IN [i \in 1..Len(mine) |-> mine[i].player_id]

\* team ids that own a pick of the stream (the keys of team_players)
roster_keys(stream) == {stream[i].team_id : i \in 1..Len(stream)}

\* roster_data for the team key k; teams.get(team_id, {}) gives None fields
\* for a key that is no team of the draft
roster_data(stream, teams, k, roster_id) ==
    LET found == {t \in teams : t.id = k}
    IN [ id |-> roster_id,
         team_name |-> IF found = {} THEN None ELSE (CHOOSE t \in found : TRUE).team_name,
         coach_user_id |-> IF found = {} THEN NoCoach ELSE (CHOOSE t \in found : TRUE).coach_user_id,
         player_ids |-> team_players(stream, k) ]

\* the roster documents written for one streaming order of the picks;
\* roster ids are fresh, the k-th new roster gets the k-th unused id
rosters_for(stream, teams, rosters) ==
    LET keys == roster_keys(stream)
        rank(k) == Cardinality({j \in keys : j <= k})
    IN {roster_data(stream, teams, k, Cardinality(rosters) + rank(k)) : k \in keys}

\* draft_picks is streamed without order_by: the documents come in the order
\* of their random ids, which is any order
create_team_rosters(picks, teams, rosters) ==
    {rosters \cup rosters_for(stream, teams, rosters) : stream \in Orderings(picks)}

\* --------------------------------------------------------------- make_pick
\* a Pick stamped with the pick's place in its round where the round belongs
make_pick_data_round_swapped(draft_data, player_id, user, picks) ==
    LET current_round == draft_data.current_round
        num_teams == draft_data.num_teams
        pick_in_round == draft_data.current_pick - ((current_round - 1) * num_teams)
        overall_pick == draft_data.current_pick
    IN [ id |-> FreshId(picks),
         round |-> pick_in_round,
         pick_number |-> overall_pick,
         pick_in_round |-> current_round,
         team_id |-> draft_data.current_team_id,
         player_id |-> player_id,
         picked_by |-> user,
         pick_type |-> "manual" ]

make_pick_data(draft_data, player_id, user, picks) ==
    LET current_round == draft_data.current_round
        num_teams == draft_data.num_teams
        pick_in_round == draft_data.current_pick - ((current_round - 1) * num_teams)
        overall_pick == draft_data.current_pick
    IN [ id |-> FreshId(picks),
         round |-> current_round,
         pick_number |-> overall_pick,
         pick_in_round |-> pick_in_round,
         team_id |-> draft_data.current_team_id,
         player_id |-> player_id,
         picked_by |-> user,
         pick_type |-> "manual" ]

make_pick_completes(draft_data) ==
    draft_data.current_pick + 1 > draft_data.num_rounds * draft_data.num_teams

\* an advance that moves the pick and the team but keeps the round it found
make_pick_updates_keeping_round(draft_data, t) ==
    LET overall_pick == draft_data.current_pick
        next_pick == overall_pick + 1
    IN IF make_pick_completes(draft_data)
       THEN [ status |-> "completed",
              completed_at |-> t,
              current_pick |-> overall_pick,
              pick_deadline |-> None ]
       ELSE [ current_round |-> draft_data.current_round,
              current_pick |-> next_pick,
              current_team_id |-> get_pick_team(draft_data, next_pick),
              pick_deadline |-> IF draft_data.pick_timer_seconds > 0
                                THEN t + draft_data.pick_timer_seconds
                                ELSE None ]

make_pick_updates(draft_data, t) ==
    LET overall_pick == draft_data.current_pick
        num_teams == draft_data.num_teams
        next_pick == overall_pick + 1
    IN IF make_pick_completes(draft_data)
       THEN [ status |-> "completed",
              completed_at |-> t,
              current_pick |-> overall_pick,
              pick_deadline |-> None ]
       ELSE [ current_round |-> ((next_pick - 1) \div num_teams) + 1,
              current_pick |-> next_pick,
              current_team_id |-> get_pick_team(draft_data, next_pick),
              pick_deadline |-> IF draft_data.pick_timer_seconds > 0
                                THEN t + draft_data.pick_timer_seconds
                                ELSE None ]

\* a turn check that lets every authenticated caller pick
make_pick_allowed_anyone(draft_data, team_data, user) == TRUE

make_pick_allowed(draft_data, team_data, user) ==
    LET is_admin == draft_data.created_by = user
        is_coach == team_data.coach_user_id = user
    IN is_admin \/ is_coach

\* a make_pick that skips the already-drafted query
already_drafted_never(picks, player_id) == FALSE

\* the draft_picks query (draft_id, player_id).limit(1) finds a document
already_drafted(picks, player_id) == \E p \in picks : p.player_id = player_id

\* a make_pick that is served only while the pick clock is running
make_pick_active_in_time(draft_data) ==
    /\ draft_data.status = "active"
    /\ draft_data.pick_deadline = None \/ now < draft_data.pick_deadline

\* a make_pick that skips the status check
make_pick_active_always(draft_data) == TRUE

make_pick_active(draft_data) == draft_data.status = "active"

make_pick(user, player_id) ==
    /\ UNCHANGED <<now, reqs, sched, rounds>>
    /\ IF ~draft.exists
       THEN Reject("make_pick", "Draft not found")
       ELSE IF ~make_pick_active(draft)
       THEN Reject("make_pick", "Draft is not active")
       ELSE IF team_doc(draft_teams, draft.current_team_id) = {}
       THEN Reject("make_pick", "Current team not found")
       ELSE IF \E team_data \in team_doc(draft_teams, draft.current_team_id) :
                   ~make_pick_allowed(draft, team_data, user)
       THEN Reject("make_pick", "Not your turn to pick")
       ELSE IF already_drafted(draft_picks, player_id)
       THEN Reject("make_pick", "Player already drafted")
       ELSE LET pick_data == make_pick_data(draft, player_id, user, draft_picks)
                picks == draft_picks \cup {pick_data}
            IN /\ draft_picks' = picks
               /\ draft' = Update(draft, make_pick_updates(draft, now))
               /\ IF make_pick_completes(draft)
                  THEN team_rosters' \in create_team_rosters(picks, teams_query(draft_teams, DraftId), team_rosters)
                  ELSE UNCHANGED team_rosters
               /\ Respond("make_pick", OK)
               /\ UNCHANGED <<draft_teams, coach_rankings>>

\* --------------------------------------------------------------- auto_pick
\* composite_score of the players of the event (scoring provider)
composite_score(p) == p % 2

\* first element of ranked_player_ids that is available, None if there is none
first_ranked(ranked_player_ids, available_ids) ==
    LET hits == {i \in 1..Len(ranked_player_ids) : ranked_player_ids[i] \in available_ids}
    IN IF hits = {} THEN None
       ELSE ranked_player_ids[CHOOSE i \in hits : \A j \in hits : i <= j]

\* available_players.sort(key=composite, reverse=True)[0]: the sort is stable,
\* and the players query streams the documents by ascending document id
best_composite(available_ids) ==
    CHOOSE p \in available_ids : \A q \in available_ids :
        \/ composite_score(p) > composite_score(q)
        \/ composite_score(p) = composite_score(q) /\ p <= q

auto_pick_available(picks) ==
    LET drafted_ids == {p.player_id : p \in picks}
    IN {pid \in Players : pid \notin drafted_ids}

\* a selection that never reads the coach's ranking
auto_pick_select_unranked(ranked_player_ids, available_ids) == best_composite(available_ids)

auto_pick_select(ranked_player_ids, available_ids) ==
    LET selected_player_id == first_ranked(ranked_player_ids, available_ids)
    IN IF selected_player_id = None THEN best_composite(available_ids) ELSE selected_player_id

\* ranked_player_ids values the rankings query (limit 1) can give for a coach
auto_pick_rankings(rankings, coach_user_id) ==
    LET mine == {r \in rankings : r.coach_user_id = coach_user_id}
    IN IF coach_user_id = NoCoach \/ mine = {} THEN {<<>>}
       ELSE {r.ranked_player_ids : r \in mine}

auto_pick_data(draft_data, selected_player_id, picks) ==
    LET current_round == draft_data.current_round
        overall_pick == draft_data.current_pick
    IN [ id |-> FreshId(picks),
         round |-> current_round,
         pick_number |-> overall_pick,
         pick_in_round |-> None,
         team_id |-> draft_data.current_team_id,
         player_id |-> selected_player_id,
         picked_by |-> "system",
         pick_type |-> "auto" ]

\* an auto_pick that never takes a pick for the last one
auto_pick_completes_never(draft_data) == FALSE

auto_pick_completes(draft_data) ==
    draft_data.current_pick + 1 > draft_data.num_rounds * draft_data.num_teams

auto_pick_updates(draft_data, t) ==
    LET overall_pick == draft_data.current_pick
        num_teams == draft_data.num_teams
        next_pick == overall_pick + 1
    IN IF auto_pick_completes(draft_data)
       THEN [ status |-> "completed",
              completed_at |-> t,
              current_pick |-> overall_pick,
              pick_deadline |-> None ]
       ELSE [ current_round |-> ((next_pick - 1) \div num_teams) + 1,
              current_pick |-> next_pick,
              current_team_id |-> get_pick_team(draft_data, next_pick),
              pick_deadline |-> IF draft_data.pick_timer_seconds > 0
                                THEN t + draft_data.pick_timer_seconds
                                ELSE None ]

\* an auto_pick that never looks at the clock
timer_not_expired_ignored(draft_data, t) == FALSE

\* the timer check of auto_pick: a deadline that is set and still ahead
timer_not_expired(draft_data, t) ==
    draft_data.pick_deadline # None /\ t < draft_data.pick_deadline

auto_pick ==
    /\ UNCHANGED <<now, reqs, sched, rounds>>
    /\ IF ~draft.exists
       THEN Reject("auto_pick", "Draft not found")
       ELSE IF draft.status # "active"
       THEN Reject("auto_pick", "Draft is not active")
       ELSE IF ~draft.auto_pick_on_timeout
       THEN Reject("auto_pick", "Auto-pick is disabled for this draft")
       ELSE IF timer_not_expired(draft, now)
       THEN Reject("auto_pick", "Timer has not expired yet")
       ELSE IF team_doc(draft_teams, draft.current_team_id) = {}
       THEN Reject("auto_pick", "Current team not found")
       ELSE IF auto_pick_available(draft_picks) = {}
       THEN Reject("auto_pick", "No players available")
       ELSE \E team_data \in team_doc(draft_teams, draft.current_team_id) :
            \E ranked_player_ids \in auto_pick_rankings(coach_rankings, team_data.coach_user_id) :
            LET selected_player_id == auto_pick_select(ranked_player_ids, auto_pick_available(draft_picks))
                pick_data == auto_pick_data(draft, selected_player_id, draft_picks)
                picks == draft_picks \cup {pick_data}
            IN /\ draft_picks' = picks
               /\ draft' = Update(draft, auto_pick_updates(draft, now))
               /\ IF auto_pick_completes(draft)
                  THEN team_rosters' \in create_team_rosters(picks, teams_query(draft_teams, DraftId), team_rosters)
                  ELSE UNCHANGED team_rosters
               /\ Respond("auto_pick", OK)
               /\ UNCHANGED <<draft_teams, coach_rankings>>

\* ---------------------------------------------------------- undo_last_pick
\* an undo query without order_by: any pick of the draft
last_picks_unordered(picks) == picks

\* order_by(pick_number, DESCENDING).limit(1): a pick of the highest number
last_picks(picks) == {p \in picks : \A q \in picks : q.pick_number <= p.pick_number}

\* an undo that also withdraws the deadline of the turn it re-opens
undo_updates_clearing_deadline(draft_data, last_pick_data) ==
    LET num_teams == draft_data.num_teams
        reverted_pick == last_pick_data.pick_number
    IN [ current_round |-> ((reverted_pick - 1) \div num_teams) + 1,
         current_pick |-> reverted_pick,
         current_team_id |-> last_pick_data.team_id,
         status |-> IF draft_data.status = "completed" THEN "active" ELSE draft_data.status,
         pick_deadline |-> None ]

\* an undo that always writes status active
undo_updates_reactivating(draft_data, last_pick_data) ==
    LET num_teams == draft_data.num_teams
        reverted_pick == last_pick_data.pick_number
    IN [ current_round |-> ((reverted_pick - 1) \div num_teams) + 1,
         current_pick |-> reverted_pick,
         current_team_id |-> last_pick_data.team_id,
         status |-> "active" ]

undo_updates(draft_data, last_pick_data) ==
    LET num_teams == draft_data.num_teams
        reverted_pick == last_pick_data.pick_number
    IN [ current_round |-> ((reverted_pick - 1) \div num_teams) + 1,
         current_pick |-> reverted_pick,
         current_team_id |-> last_pick_data.team_id,
         status |-> IF draft_data.status = "completed" THEN "active" ELSE draft_data.status ]

undo_allowed_status(status) == status \in {"active", "paused"}

\* an undo open to every authenticated caller
undo_is_admin_anyone(draft_data, user) == TRUE

undo_is_admin(draft_data, user) == draft_data.created_by = user

undo_last_pick(user) ==
    /\ UNCHANGED <<now, reqs, sched, rounds>>
    /\ IF ~draft.exists
       THEN Reject("undo_last_pick", "Draft not found")
       ELSE IF ~undo_is_admin(draft, user)
       THEN Reject("undo_last_pick", "Only draft admin can undo picks")
       ELSE IF ~undo_allowed_status(draft.status)
       THEN Reject("undo_last_pick", "Cannot undo picks in current draft state")
       ELSE IF draft_picks = {}
       THEN Reject("undo_last_pick", "No picks to undo")
       ELSE \E last_pick \in last_picks(draft_picks) :
               /\ draft_picks' = draft_picks \ {last_pick}
               /\ draft' = Update(draft, undo_updates(draft, last_pick))
               /\ Respond("undo_last_pick", OK)
               /\ UNCHANGED <<draft_teams, coach_rankings, team_rosters>>

\* -------------------------------------------------- requests one at a time
Next ==
    \/ Tick
    \/ \E updates \in UpdateInputs : update_draft(updates)
    \/ delete_draft
    \/ \E coach \in CoachInputs : add_team(coach)
    \/ \E user \in CoachInputs \ {NoCoach}, ranked \in RankingInputs : save_rankings(user, ranked)
    \/ start_draft
    \/ pause_draft
    \/ resume_draft
    \/ \E user \in Users, player_id \in PlayerIds : make_pick(user, player_id)
    \/ auto_pick
    \/ \E user \in Users : undo_last_pick(user)

Spec == Init /\ [][Next]_vars

\* ------------------------------------------------ overlapping pick requests
Goto(r, label) == reqs' = [reqs EXCEPT ![r].pc = label]

Finish(r, detail) == reqs' = [reqs EXCEPT ![r].pc = "done", ![r].response = detail]

\* draft_ref.get() of make_pick, and the status check on the copy
mp_begin(r, user, player_id) ==
    /\ reqs[r].pc = "idle"
    /\ \A q \in Requests : q < r => reqs[q].pc # "idle"
    /\ reqs' = [reqs EXCEPT ![r] = [ IdleReq EXCEPT
                   !.op = "make_pick", !.user = user, !.player_id = player_id,
                   !.draft_data = draft,
                   !.pc = IF draft.status # "active" THEN "done" ELSE "mp_team",
                   !.response = IF draft.status # "active" THEN "Draft is not active" ELSE "none" ]]
    /\ UNCHANGED <<store, now, last, sched, rounds>>

\* draft_teams/{current_team_id}.get(), and the turn check
mp_team(r) ==
    /\ reqs[r].pc = "mp_team"
    /\ LET docs == team_doc(draft_teams, reqs[r].draft_data.current_team_id) IN
       IF docs = {} THEN Finish(r, "Current team not found")
       ELSE \E team_data \in docs :
              IF ~make_pick_allowed(reqs[r].draft_data, team_data, reqs[r].user)
              THEN Finish(r, "Not your turn to pick")
              ELSE reqs' = [reqs EXCEPT ![r].pc = "mp_existing", ![r].team_data = team_data]
    /\ UNCHANGED <<store, now, last, sched, rounds>>

\* the draft_picks query for the player
mp_existing(r) ==
    /\ reqs[r].pc = "mp_existing"
    /\ IF already_drafted(draft_picks, reqs[r].player_id)
       THEN Finish(r, "Player already drafted")
       ELSE Goto(r, "mp_set")
    /\ UNCHANGED <<store, now, last, sched, rounds>>

\* draft_picks/{pick_id}.set(pick_data)
mp_set(r) ==
    /\ reqs[r].pc = "mp_set"
    /\ draft_picks' = draft_picks \cup
           {make_pick_data(reqs[r].draft_data, reqs[r].player_id, reqs[r].user, draft_picks)}
    /\ Goto(r, "mp_update")
    /\ UNCHANGED <<draft, draft_teams, coach_rankings, team_rosters, now, last, sched, rounds>>

\* draft_ref.update(...) computed from the copy read at the start
mp_update(r) ==
    /\ reqs[r].pc = "mp_update"
    /\ draft' = Update(draft, make_pick_updates(reqs[r].draft_data, now))
    /\ IF make_pick_completes(reqs[r].draft_data) THEN Goto(r, "cr_picks") ELSE Finish(r, OK)
    /\ UNCHANGED <<draft_teams, draft_picks, coach_rankings, team_rosters, now, last, sched, rounds>>

\* draft_ref.get() of auto_pick, and the checks on the copy and the clock
ap_begin(r) ==
    /\ reqs[r].pc = "idle"
    /\ \A q \in Requests : q < r => reqs[q].pc # "idle"
    /\ LET detail == IF draft.status # "active" THEN "Draft is not active"
                     ELSE IF ~draft.auto_pick_on_timeout THEN "Auto-pick is disabled for this draft"
                     ELSE IF timer_not_expired(draft, now) THEN "Timer has not expired yet"
                     ELSE "none"
       IN reqs' = [reqs EXCEPT ![r] = [ IdleReq EXCEPT
                   !.op = "auto_pick", !.user = "system", !.draft_data = draft,
                   !.pc = IF detail = "none" THEN "ap_team" ELSE "done",
                   !.response = detail ]]
    /\ UNCHANGED <<store, now, last, sched, rounds>>

\* draft_teams/{current_team_id}.get()
ap_team(r) ==
    /\ reqs[r].pc = "ap_team"
    /\ LET docs == team_doc(draft_teams, reqs[r].draft_data.current_team_id) IN
       IF docs = {} THEN Finish(r, "Current team not found")
       ELSE \E team_data \in docs :
              reqs' = [reqs EXCEPT ![r].pc = "ap_rankings", ![r].team_data = team_data]
    /\ UNCHANGED <<store, now, last, sched, rounds>>

\* the coach_rankings query
ap_rankings(r) ==
    /\ reqs[r].pc = "ap_rankings"
    /\ \E ranked_player_ids \in auto_pick_rankings(coach_rankings, reqs[r].team_data.coach_user_id) :
           reqs' = [reqs EXCEPT ![r].pc = "ap_picks", ![r].ranked_player_ids = ranked_player_ids]
    /\ UNCHANGED <<store, now, last, sched, rounds>>

\* the players query and the draft_picks query; the selection is computed
\* from their results
ap_picks(r) ==
    /\ reqs[r].pc = "ap_picks"
    /\ LET available_ids == auto_pick_available(draft_picks) IN
       IF available_ids = {} THEN Finish(r, "No players available")
       ELSE reqs' = [reqs EXCEPT ![r].pc = "ap_set",
                        ![r].player_id = auto_pick_select(reqs[r].ranked_player_ids, available_ids)]
    /\ UNCHANGED <<store, now, last, sched, rounds>>

\* draft_picks/{pick_id}.set(pick_data)
ap_set(r) ==
    /\ reqs[r].pc = "ap_set"
    /\ draft_picks' = draft_picks \cup
           {auto_pick_data(reqs[r].draft_data, reqs[r].player_id, draft_picks)}
    /\ Goto(r, "ap_update")
    /\ UNCHANGED <<draft, draft_teams, coach_rankings, team_rosters, now, last, sched, rounds>>

\* draft_ref.update(...) computed from the copy read at the start
ap_update(r) ==
    /\ reqs[r].pc = "ap_update"
    /\ draft' = Update(draft, auto_pick_updates(reqs[r].draft_data, now))
    /\ IF auto_pick_completes(reqs[r].draft_data) THEN Goto(r, "cr_picks") ELSE Finish(r, OK)
    /\ UNCHANGED <<draft_teams, draft_picks, coach_rankings, team_rosters, now, last, sched, rounds>>

\* _create_team_rosters: the draft_picks query
cr_picks(r) ==
    /\ reqs[r].pc = "cr_picks"
    /\ \E stream \in Orderings(draft_picks) :
           reqs' = [reqs EXCEPT ![r].pc = "cr_write", ![r].stream = stream,
                                ![r].keys = roster_keys(stream)]
    /\ UNCHANGED <<store, now, last, sched, rounds>>

\* _create_team_rosters: the draft_teams query, then one team_rosters
\* document set per step (the teams do not change while picks are served)
cr_write(r) ==
    /\ reqs[r].pc = "cr_write"
    /\ IF reqs[r].keys = {}
       THEN Finish(r, OK) /\ UNCHANGED team_rosters
       ELSE LET k == CHOOSE k \in reqs[r].keys : \A j \in reqs[r].keys : k <= j IN
            /\ team_rosters' = team_rosters \cup
                   {roster_data(reqs[r].stream, teams_query(draft_teams, DraftId), k, FreshId(team_rosters))}
            /\ reqs' = [reqs EXCEPT ![r].keys = reqs[r].keys \ {k}]
    /\ UNCHANGED <<draft, draft_teams, draft_picks, coach_rankings, now, last, sched, rounds>>

\* a draft that start_draft has just activated: two teams, the second without
\* a coach, and the ranking the coach "c1" has saved
ConcInit ==
    /\ \E dt \in DraftTypes, nr \in RoundsInputs, tm \in TimerInputs, ap \in BOOLEAN :
       \E c1 \in CoachInputs, c2 \in {NoCoach} :
           LET t1 == [id |-> 1, team_name |-> 1, coach_user_id |-> c1, pick_order |-> 1,
                     draft_id |-> DraftId, pre_slotted_player_ids |-> <<>>]
               t2 == [id |-> 2, team_name |-> 2, coach_user_id |-> c2, pick_order |-> 2,
                     draft_id |-> DraftId, pre_slotted_player_ids |-> <<>>]
               d0 == Update(NewDraft(dt, nr, tm, ap), [num_teams |-> 2])
           IN /\ draft_teams = {t1, t2}
              /\ draft = Update(d0, start_updates(d0, <<t1, t2>>, 0))
    /\ draft_picks = {}
    /\ coach_rankings = {[id |-> 1, coach_user_id |-> "c1", ranked_player_ids |-> <<2, 1>>]}
    /\ team_rosters = {}
    /\ now = 0
    /\ last = [op |-> "start_draft", detail |-> OK]
    /\ reqs = IdleReqs
    /\ sched = IdleSched
    /\ rounds = IdleRounds

ConcNext ==
    \/ Tick
    \/ \E r \in Requests, user \in Users, player_id \in PlayerIds : mp_begin(r, user, player_id)
    \/ \E r \in Requests : mp_team(r)
    \/ \E r \in Requests : mp_existing(r)
    \/ \E r \in Requests : mp_set(r)
    \/ \E r \in Requests : mp_update(r)
    \/ \E r \in Requests : ap_begin(r)
    \/ \E r \in Requests : ap_team(r)
    \/ \E r \in Requests : ap_rankings(r)
    \/ \E r \in Requests : ap_picks(r)
    \/ \E r \in Requests : ap_set(r)
    \/ \E r \in Requests : ap_update(r)
    \/ \E r \in Requests : cr_picks(r)
    \/ \E r \in Requests : cr_write(r)

ConcSpec == ConcInit /\ [][ConcNext]_vars

\* ---------------------------- overlapping requests for the last pick
\* a snake draft of two teams and one round (num_rounds computed by
\* start_draft), with auto-pick enabled, after the creator's first pick: the next
\* pick completes it
FinalPickInit ==
    /\ \E dt \in {"snake"}, tm \in TimerInputs, ap \in {TRUE} :
           LET t1 == [id |-> 1, team_name |-> 1, coach_user_id |-> NoCoach, pick_order |-> 1,
                     draft_id |-> DraftId, pre_slotted_player_ids |-> <<>>]
               t2 == [id |-> 2, team_name |-> 2, coach_user_id |-> "c1", pick_order |-> 2,
                     draft_id |-> DraftId, pre_slotted_player_ids |-> <<>>]
               d0 == Update(NewDraft(dt, None, tm, ap), [num_teams |-> 2])
               d1 == Update(d0, start_updates(d0, <<t1, t2>>, 0))
           IN /\ draft_teams = {t1, t2}
              /\ draft = Update(d1, make_pick_updates(d1, 0))
              /\ draft_picks = {make_pick_data(d1, 1, Admin, {})}
    /\ coach_rankings = {[id |-> 1, coach_user_id |-> "c1", ranked_player_ids |-> <<2, 1>>]}
    /\ team_rosters = {}
    /\ now = 0
    /\ last = [op |-> "make_pick", detail |-> OK]
    /\ reqs = IdleReqs
    /\ sched = IdleSched
    /\ rounds = IdleRounds

FinalPickSpec == FinalPickInit /\ [][ConcNext]_vars

\* -------------------------------------------- get_pick_team on its own
\* team orders of 0..MaxSchedTeams distinct teams
SchedOrders == UNION {Orderings(S) : S \in SUBSET (1..MaxSchedTeams)}

SchedInit ==
    /\ \E order \in SchedOrders, dt \in DraftTypes :
           sched = [team_order |-> order, draft_type |-> dt, overall_pick |-> 0, result |-> None]
    /\ draft = NewDraft("snake", None, 0, FALSE)
    /\ draft_teams = {}
    /\ draft_picks = {}
    /\ coach_rankings = {}
    /\ team_rosters = {}
    /\ now = 0
    /\ last = [op |-> "create_draft", detail |-> OK]
    /\ reqs = IdleReqs
    /\ rounds = IdleRounds

\* the team on the clock for the next overall pick of a full run of picks
sched_pick ==
    /\ sched.overall_pick < MaxSchedPick
    /\ sched' = [sched EXCEPT !.overall_pick = sched.overall_pick + 1,
                              !.result = get_pick_team(sched, sched.overall_pick + 1)]
    /\ UNCHANGED <<store, now, last, reqs, rounds>>

SchedNext == sched_pick

SchedSpec == SchedInit /\ [][SchedNext]_vars

\* ------------------------------------- the num_rounds of start_draft on its own
RoundsSupplied == {None, -1, 0, 1, 2, 3}   \* DraftCreate.num_rounds

RoundsInit ==
    /\ \E nr \in RoundsSupplied, nt \in 2..MaxRoundsTeams :
           rounds = [num_rounds |-> nr, player_count |-> 0, num_teams |-> nt, result |-> None]
    /\ draft = NewDraft("snake", None, 0, FALSE)
    /\ draft_teams = {}
    /\ draft_picks = {}
    /\ coach_rankings = {}
    /\ team_rosters = {}
    /\ now = 0
    /\ last = [op |-> "create_draft", detail |-> OK]
    /\ reqs = IdleReqs
    /\ sched = IdleSched

\* one more player of the event matches the age_group of the draft
rounds_add_player ==
    /\ rounds.result = None
    /\ rounds.player_count < MaxRoundsPlayers
    /\ rounds' = [rounds EXCEPT !.player_count = rounds.player_count + 1]
    /\ UNCHANGED <<store, now, last, reqs, sched>>

\* start_draft counts the eligible players and settles num_rounds
rounds_start ==
    /\ rounds.result = None
    /\ rounds' = [rounds EXCEPT !.result =
                      start_num_rounds(rounds.num_rounds, rounds.player_count, rounds.num_teams)]
    /\ UNCHANGED <<store, now, last, reqs, sched>>

RoundsNext == rounds_add_player \/ rounds_start

RoundsSpec == RoundsInit /\ [][RoundsNext]_vars

\* ------------------------------------------- a draft of two rounds, picked out
\* PickCreate.player_id: make_pick never reads the players collection
RosterPlayerIds == 1..MaxRosterPlayers

\* two teams, two rounds, no timer: the state after start_draft
RosterInit ==
    /\ \E dt \in DraftTypes :
           LET t1 == [id |-> 1, team_name |-> 1, coach_user_id |-> "c1", pick_order |-> 1,
                     draft_id |-> DraftId, pre_slotted_player_ids |-> <<>>]
               t2 == [id |-> 2, team_name |-> 2, coach_user_id |-> NoCoach, pick_order |-> 2,
                     draft_id |-> DraftId, pre_slotted_player_ids |-> <<>>]
               d0 == Update(NewDraft(dt, 2, 0, FALSE), [num_teams |-> 2])
           IN /\ draft_teams = {t1, t2}
              /\ draft = Update(d0, start_updates(d0, <<t1, t2>>, 0))
    /\ draft_picks = {}
    /\ coach_rankings = {}
    /\ team_rosters = {}
    /\ now = 0
    /\ last = [op |-> "start_draft", detail |-> OK]
    /\ reqs = IdleReqs
    /\ sched = IdleSched
    /\ rounds = IdleRounds

RosterNext ==
    \/ \E user \in {Admin, "c1"}, player_id \in RosterPlayerIds : make_pick(user, player_id)
    \/ undo_last_pick(Admin)

RosterSpec == RosterInit /\ [][RosterNext]_vars

\* ------------------------------------- pause_draft overlapping a pick request
\* draft_ref.get() of pause_draft, and the status check on the copy
pz_begin(r) ==
    /\ reqs[r].pc = "idle"
    /\ \A q \in Requests : q < r => reqs[q].pc # "idle"
    /\ reqs' = [reqs EXCEPT ![r] = [ IdleReq EXCEPT
                   !.op = "pause_draft", !.draft_data = draft,
                   !.pc = IF draft.status # "active" THEN "done" ELSE "pz_update",
                   !.response = IF draft.status # "active" THEN "Draft is not active" ELSE "none" ]]
    /\ UNCHANGED <<store, now, last, sched, rounds>>

\* draft_ref.update({"status": "paused", "pick_deadline": None})
pz_update(r) ==
    /\ reqs[r].pc = "pz_update"
    /\ draft' = Update(draft, pause_updates)
    /\ Finish(r, OK)
    /\ UNCHANGED <<draft_teams, draft_picks, coach_rankings, team_rosters, now, last, sched, rounds>>

\* a timed snake draft of two teams and one round with auto-pick enabled,
\* right after start_draft or after the creator's first pick
PauseRaceInit ==
    /\ LET t1 == [id |-> 1, team_name |-> 1, coach_user_id |-> NoCoach, pick_order |-> 1,
                     draft_id |-> DraftId, pre_slotted_player_ids |-> <<>>]
           t2 == [id |-> 2, team_name |-> 2, coach_user_id |-> "c1", pick_order |-> 2,
                     draft_id |-> DraftId, pre_slotted_player_ids |-> <<>>]
           d0 == Update(NewDraft("snake", None, 1, TRUE), [num_teams |-> 2])
           d1 == Update(d0, start_updates(d0, <<t1, t2>>, 0))
       IN /\ draft_teams = {t1, t2}
          /\ \/ /\ draft = d1
                /\ draft_picks = {}
                /\ last = [op |-> "start_draft", detail |-> OK]
             \/ /\ draft = Update(d1, make_pick_updates(d1, 0))
                /\ draft_picks = {make_pick_data(d1, 1, Admin, {})}
                /\ last = [op |-> "make_pick", detail |-> OK]
    /\ coach_rankings = {}
    /\ team_rosters = {}
    /\ now = 1
    /\ reqs = IdleReqs
    /\ sched = IdleSched
    /\ rounds = IdleRounds

PauseRaceNext ==
    \/ \E r \in Requests : pz_begin(r)
    \/ \E r \in Requests : pz_update(r)
    \/ \E r \in Requests, player_id \in PlayerIds : mp_begin(r, Admin, player_id)
    \/ \E r \in Requests : mp_team(r)
    \/ \E r \in Requests : mp_existing(r)
    \/ \E r \in Requests : mp_set(r)
    \/ \E r \in Requests : mp_update(r)
    \/ \E r \in Requests : ap_begin(r)
    \/ \E r \in Requests : ap_team(r)
    \/ \E r \in Requests : ap_rankings(r)
    \/ \E r \in Requests : ap_picks(r)
    \/ \E r \in Requests : ap_set(r)
    \/ \E r \in Requests : ap_update(r)
    \/ \E r \in Requests : cr_picks(r)
    \/ \E r \in Requests : cr_write(r)

PauseRaceSpec == PauseRaceInit /\ [][PauseRaceNext]_vars

\* ------------------------ add_team and remove_team overlapping start_draft
\* draft_ref.get() of add_team, and the status check on the copy
at_begin(r, coach) ==
    /\ reqs[r].pc = "idle"
    /\ \A q \in Requests : q < r => reqs[q].pc # "idle"
    /\ Cardinality(teams_query(draft_teams, DraftId)) < MaxRaceTeams
    /\ reqs' = [reqs EXCEPT ![r] = [ IdleReq EXCEPT
                   !.op = "add_team", !.draft_data = draft,
                   !.team_data = [coach_user_id |-> coach],
                   !.pc = IF draft.status # "setup" THEN "done" ELSE "at_count",
                   !.response = IF draft.status # "setup"
                                THEN "Cannot add teams after draft has started" ELSE "none" ]]
    /\ UNCHANGED <<store, now, last, sched, rounds>>

\* the draft_teams query that counts the teams
at_count(r) ==
    /\ reqs[r].pc = "at_count"
    /\ reqs' = [reqs EXCEPT ![r].pc = "at_set",
                            ![r].team_data = [coach_user_id |-> reqs[r].team_data.coach_user_id,
                                              pick_order |-> Cardinality(teams_query(draft_teams, DraftId)) + 1]]
    /\ UNCHANGED <<store, now, last, sched, rounds>>

\* draft_teams/{team_id}.set(team_data)
at_set(r) ==
    /\ reqs[r].pc = "at_set"
    /\ draft_teams' = draft_teams \cup
           {[ id |-> FreshId(draft_teams),
              draft_id |-> DraftId,
              team_name |-> FreshId(draft_teams),
              coach_user_id |-> reqs[r].team_data.coach_user_id,
              pick_order |-> reqs[r].team_data.pick_order,
              pre_slotted_player_ids |-> <<>> ]}
    /\ Goto(r, "at_update")
    /\ UNCHANGED <<draft, draft_picks, coach_rankings, team_rosters, now, last, sched, rounds>>

\* draft_ref.update({"num_teams": current_count + 1})
at_update(r) ==
    /\ reqs[r].pc = "at_update"
    /\ draft' = Update(draft, [num_teams |-> reqs[r].team_data.pick_order])
    /\ Finish(r, OK)
    /\ UNCHANGED <<draft_teams, draft_picks, coach_rankings, team_rosters, now, last, sched, rounds>>

\* draft_ref.get() of remove_team, and the status check on the copy
rt_begin(r, team_id) ==
    /\ reqs[r].pc = "idle"
    /\ \A q \in Requests : q < r => reqs[q].pc # "idle"
    /\ reqs' = [reqs EXCEPT ![r] = [ IdleReq EXCEPT
                   !.op = "remove_team", !.draft_data = draft,
                   !.team_data = [id |-> team_id],
                   !.pc = IF draft.status # "setup" THEN "done" ELSE "rt_team",
                   !.response = IF draft.status # "setup"
                                THEN "Cannot remove teams after draft has started" ELSE "none" ]]
    /\ UNCHANGED <<store, now, last, sched, rounds>>

\* team_ref.get().exists
rt_team(r) ==
    /\ reqs[r].pc = "rt_team"
    /\ IF team_doc(draft_teams, reqs[r].team_data.id) = {}
       THEN Finish(r, "Team not found")
       ELSE Goto(r, "rt_delete")
    /\ UNCHANGED <<store, now, last, sched, rounds>>

\* team_ref.delete()
rt_delete(r) ==
    /\ reqs[r].pc = "rt_delete"
    /\ draft_teams' = {t \in draft_teams : t.id # reqs[r].team_data.id}
    /\ Goto(r, "rt_count")
    /\ UNCHANGED <<draft, draft_picks, coach_rankings, team_rosters, now, last, sched, rounds>>

\* the draft_teams query that counts the teams left, and
\* draft_ref.update({"num_teams": new_count})
rt_count(r) ==
    /\ reqs[r].pc = "rt_count"
    /\ reqs' = [reqs EXCEPT ![r].pc = "rt_update",
                            ![r].team_data = [id |-> reqs[r].team_data.id,
                                              new_count |-> Cardinality(teams_query(draft_teams, DraftId))]]
    /\ UNCHANGED <<store, now, last, sched, rounds>>

rt_update(r) ==
    /\ reqs[r].pc = "rt_update"
    /\ draft' = Update(draft, [num_teams |-> reqs[r].team_data.new_count])
    /\ Finish(r, OK)
    /\ UNCHANGED <<draft_teams, draft_picks, coach_rankings, team_rosters, now, last, sched, rounds>>

\* draft_ref.get() of start_draft, and the status check on the copy
sd_begin(r) ==
    /\ reqs[r].pc = "idle"
    /\ \A q \in Requests : q < r => reqs[q].pc # "idle"
    /\ reqs' = [reqs EXCEPT ![r] = [ IdleReq EXCEPT
                   !.op = "start_draft", !.draft_data = draft,
                   !.pc = IF draft.status # "setup" THEN "done" ELSE "sd_teams",
                   !.response = IF draft.status # "setup"
                                THEN "Draft already started or completed" ELSE "none" ]]
    /\ UNCHANGED <<store, now, last, sched, rounds>>

\* the draft_teams query, the count check and the sort
sd_teams(r) ==
    /\ reqs[r].pc = "sd_teams"
    /\ IF Cardinality(teams_query(draft_teams, DraftId)) < 2
       THEN Finish(r, "Need at least 2 teams to start draft")
       ELSE \E teams \in SortedByPickOrder(teams_query(draft_teams, DraftId)) :
               reqs' = [reqs EXCEPT ![r].pc = "sd_update", ![r].stream = teams]
    /\ UNCHANGED <<store, now, last, sched, rounds>>

\* draft_ref.update(...) with the team_order and num_teams of the teams read
sd_update(r) ==
    /\ reqs[r].pc = "sd_update"
    /\ draft' = Update(draft, start_updates(reqs[r].draft_data, reqs[r].stream, now))
    /\ Finish(r, OK)
    /\ UNCHANGED <<draft_teams, draft_picks, coach_rankings, team_rosters, now, last, sched, rounds>>

\* a draft in setup to which two teams have been added
StartRaceInit ==
    /\ \E tm \in TimerInputs :
           draft = Update(NewDraft("snake", None, tm, FALSE), [num_teams |-> 2])
    /\ draft_teams = {[id |-> 1, team_name |-> 1, coach_user_id |-> "c1", pick_order |-> 1,
                     draft_id |-> DraftId, pre_slotted_player_ids |-> <<>>],
                      [id |-> 2, team_name |-> 2, coach_user_id |-> NoCoach, pick_order |-> 2,
                     draft_id |-> DraftId, pre_slotted_player_ids |-> <<>>]}
    /\ draft_picks = {}
    /\ coach_rankings = {}
    /\ team_rosters = {}
    /\ now = 0
    /\ last = [op |-> "add_team", detail |-> OK]
    /\ reqs = IdleReqs
    /\ sched = IdleSched
    /\ rounds = IdleRounds

StartRaceNext ==
    \/ Tick
    \/ \E r \in Requests, coach \in CoachInputs : at_begin(r, coach)
    \/ \E r \in Requests : at_count(r)
    \/ \E r \in Requests : at_set(r)
    \/ \E r \in Requests : at_update(r)
    \/ \E r \in Requests, team_id \in TeamIds : rt_begin(r, team_id)
    \/ \E r \in Requests : rt_team(r)
    \/ \E r \in Requests : rt_delete(r)
    \/ \E r \in Requests : rt_count(r)
    \/ \E r \in Requests : rt_update(r)
    \/ \E r \in Requests : sd_begin(r)
    \/ \E r \in Requests : sd_teams(r)
    \/ \E r \in Requests : sd_update(r)

StartRaceSpec == StartRaceInit /\ [][StartRaceNext]_vars

\* --------------------------------------------- team management and the start
\* a new draft without timer; the teams are added, changed, removed and
\* reordered, the draft is started, paused, resumed and picked out by its creator
TeamInit ==
    /\ draft = NewDraft("snake", None, 0, FALSE)
    /\ draft_teams = {}
    /\ draft_picks = {}
    /\ coach_rankings = {}
    /\ team_rosters = {}
    /\ now = 0
    /\ last = [op |-> "create_draft", detail |-> OK]
    /\ reqs = IdleReqs
    /\ sched = IdleSched
    /\ rounds = IdleRounds

TeamNext ==
    \/ \E coach \in CoachInputs : add_team(coach)
    \/ \E team_id \in TeamIds, updates \in TeamUpdateInputs : update_team(team_id, updates)
    \/ \E team_id \in TeamIds : remove_team(team_id)
    \/ \E team_ids \in ReorderInputs : reorder_teams(team_ids)
    \/ start_draft
    \/ pause_draft
    \/ resume_draft
    \/ \E player_id \in Players : make_pick(Admin, player_id)

TeamSpec == TeamInit /\ [][TeamNext]_vars

\* ------------------------------------------ picks before and after the deadline
\* A draft with a pick timer that start_draft activated at time 0: the clock
\* runs, coaches and the organizer pick, clients call auto_pick.
ClockInit ==
    /\ \E dt \in DraftTypes, nr \in {None, 2}, ap \in BOOLEAN :
           LET t1 == [id |-> 1, draft_id |-> DraftId, team_name |-> 1, coach_user_id |-> "c1",
                      pick_order |-> 1, pre_slotted_player_ids |-> <<>>]
               t2 == [id |-> 2, draft_id |-> DraftId, team_name |-> 2, coach_user_id |-> "c2",
                      pick_order |-> 2, pre_slotted_player_ids |-> <<>>]
               d0 == Update(NewDraft(dt, nr, 1, ap), [num_teams |-> 2])
           IN /\ draft_teams = {t1, t2}
              /\ draft = Update(d0, start_updates(d0, <<t1, t2>>, 0))
    /\ draft_picks = {}
    /\ coach_rankings = {}
    /\ team_rosters = {}
    /\ now = 0
    /\ last = [op |-> "start_draft", detail |-> OK]
    /\ reqs = IdleReqs
    /\ sched = IdleSched
    /\ rounds = IdleRounds

ClockNext ==
    \/ Tick
    \/ \E user \in Users, player_id \in PlayerIds : make_pick(user, player_id)
    \/ auto_pick

ClockSpec == ClockInit /\ [][ClockNext]_vars
\* The draft_teams collection holds the teams of every draft.  The draft the
\* requests address is in setup and has one team; the other team of the
\* collection belongs to another draft, which has been started.
CrossInit ==
    /\ draft = Update(NewDraft("snake", None, 0, FALSE), [num_teams |-> 1])
    /\ draft_teams = {[id |-> 1, draft_id |-> DraftId, team_name |-> 1, coach_user_id |-> NoCoach,
                       pick_order |-> 1, pre_slotted_player_ids |-> <<>>],
                      [id |-> 2, draft_id |-> OtherDraftId, team_name |-> 2, coach_user_id |-> "c1",
                       pick_order |-> 1, pre_slotted_player_ids |-> <<>>]}
    /\ draft_picks = {}
    /\ coach_rankings = {}
    /\ team_rosters = {}
    /\ now = 0
    /\ last = [op |-> "add_team", detail |-> OK]
    /\ reqs = IdleReqs
    /\ sched = IdleSched
    /\ rounds = IdleRounds

CrossNext ==
    \/ \E team_id \in TeamIds, updates \in TeamUpdateInputs : update_team(team_id, updates)
    \/ \E team_id \in TeamIds : remove_team(team_id)
    \/ \E team_ids \in ReorderInputs : reorder_teams(team_ids)
    \/ \E team_id \in TeamIds, player_id \in Players : add_pre_slot(team_id, player_id)

CrossSpec == CrossInit /\ [][CrossNext]_vars

\* ------------------------------------------- a draft run by its pick clock
\* A started draft with a pick timer and auto_pick_on_timeout whose num_rounds
\* start_draft computed.  Clients call auto_pick, the organizer pauses
\* (during the first LiveMaxTime seconds), resumes and makes picks; no pick
\* is undone.  The clock never stops: once it is LiveMaxTime past its origin,
\* a passing second moves the origin, that is, every instant stored in the
\* draft document reads one second earlier.
earlier(t) == IF t = None THEN None ELSE Max(0, t - 1)

LiveInit ==
    /\ \E dt \in DraftTypes, nt \in 2..MaxLiveTeams :
           LET teams == [i \in 1..nt |->
                           [id |-> i, draft_id |-> DraftId, team_name |-> i,
                            coach_user_id |-> IF i = 1 THEN "c1" ELSE NoCoach,
                            pick_order |-> i, pre_slotted_player_ids |-> <<>>]]
               d0 == Update(NewDraft(dt, None, 1, TRUE), [num_teams |-> nt])
           IN /\ draft_teams = {teams[i] : i \in 1..nt}
              /\ draft = Update(d0, start_updates(d0, teams, 0))
    /\ draft_picks = {}
    /\ \E ranked \in RankingInputs :
           coach_rankings \in {{}, {[id |-> 1, coach_user_id |-> "c1", ranked_player_ids |-> ranked]}}
    /\ team_rosters = {}
    /\ now = 0
    /\ last = [op |-> "start_draft", detail |-> OK]
    /\ reqs = IdleReqs
    /\ sched = IdleSched
    /\ rounds = IdleRounds

live_tick ==
    /\ IF now < LiveMaxTime
       THEN /\ now' = now + 1
            /\ UNCHANGED store
       ELSE /\ now' = now
            /\ draft' = Update(draft, [pick_deadline |-> earlier(draft.pick_deadline),
                                       completed_at |-> earlier(draft.completed_at)])
            /\ UNCHANGED <<draft_teams, draft_picks, coach_rankings, team_rosters>>
    /\ UNCHANGED <<last, reqs, sched, rounds>>

\* the organizer's pause requests stop coming after LiveMaxTime seconds
live_pause == now < LiveMaxTime /\ pause_draft

LiveNext ==
    \/ live_tick
    \/ auto_pick
    \/ live_pause
    \/ resume_draft
    \/ \E user \in {Admin, "c1"}, player_id \in PlayerIds : make_pick(user, player_id)

\* time passes, a paused draft is resumed, and a client keeps calling auto_pick
LiveSpec ==
    /\ LiveInit /\ [][LiveNext]_vars
    /\ WF_vars(live_tick)
    /\ WF_vars(resume_draft)
    /\ WF_vars(auto_pick)

\* ================================================================ properties

\* C1: however overlapping make_pick / auto_pick requests interleave, no two
\* Picks of the ledger share a pick_number and no two share a player_id.
C1_NoDuplicatePicks ==
    \A p, q \in draft_picks :
        p.id # q.id => (p.pick_number # q.pick_number /\ p.player_id # q.player_id)

\* C2: no reader and no crash point sees a draft that is still active with
\* current_pick = k while a Pick with pick_number k is already in the ledger.
C2_NoPartialAdvance ==
    ~(draft.status = "active" /\ \E p \in draft_picks : p.pick_number = draft.current_pick)

\* C3: with requests served one at a time, the player_ids of the Picks are
\* pairwise distinct and so are their pick_numbers.
C3_UniquePicks ==
    /\ Cardinality({p.player_id : p \in draft_picks}) = Cardinality(draft_picks)
    /\ Cardinality({p.pick_number : p \in draft_picks}) = Cardinality(draft_picks)

C3_Witness ==
    /\ Cardinality(draft_picks) >= 2
    /\ last = [op |-> "make_pick", detail |-> "Player already drafted"]

\* C4: between requests, an active draft has current_pick = count(Picks) + 1
\* and a completed draft has current_pick = num_rounds * num_teams.
C4_PointerMatchesLedger ==
    /\ draft.status = "active" => draft.current_pick = Cardinality(draft_picks) + 1
    /\ draft.status = "completed" => draft.current_pick = draft.num_rounds * draft.num_teams

\* C5: for a team_order of n >= 1 teams and an overall pick p >= 1,
\* get_pick_team is team_order[(p-1) mod n] when the draft is linear or the
\* round ((p-1) div n)+1 is odd, and the same position counted from the end of
\* team_order when the draft is snake and the round is even; snake over
\* [T1,T2,T3] gives T1,T2,T3,T3,T2,T1 for picks 1..6.
C5_SnakeOrder ==
    LET n == Len(sched.team_order)
        p == sched.overall_pick
        round == ((p - 1) \div n) + 1
        k == (p - 1) % n
    IN /\ (n >= 1 /\ p >= 1) =>
              sched.result = IF sched.draft_type = "linear" \/ round % 2 = 1
                             THEN sched.team_order[k + 1]
                             ELSE sched.team_order[n - k]
       /\ (sched.draft_type = "snake" /\ sched.team_order = <<1, 2, 3>> /\ p \in 1..6) =>
              sched.result = <<1, 2, 3, 3, 2, 1>>[p]

C5_Witness ==
    /\ sched.draft_type = "snake"
    /\ sched.team_order = <<1, 2, 3>>
    /\ sched.overall_pick = 4
    /\ sched.result = 3

\* C6: a make_pick succeeds only for the draft creator or the coach of the
\* team on the clock; any other caller changes nothing in the store, and on
\* an active draft is answered "Not your turn to pick".
C6_TurnEnforced ==
    [][\A u \in Users, pid \in PlayerIds :
         make_pick(u, pid) =>
           LET authorized ==
                   \/ u = draft.created_by
                   \/ \E t \in draft_teams : t.id = draft.current_team_id /\ t.coach_user_id = u
           IN /\ last'.detail = OK => authorized
              /\ ~authorized => UNCHANGED store
              /\ (~authorized /\ draft.status = "active") => last'.detail = "Not your turn to pick"
      ]_vars

C6_Witness ==
    /\ draft.status = "active"
    /\ last = [op |-> "make_pick", detail |-> "Not your turn to pick"]
    /\ \E t \in draft_teams : t.id # draft.current_team_id /\ t.coach_user_id = "c1"
    /\ \E t \in draft_teams : t.id = draft.current_team_id /\ t.coach_user_id = NoCoach

\* C7: with requests served one at a time the status changes only
\* setup->active by start, active->paused by pause, paused->active by resume,
\* active->completed by a pick, completed->active by undo.
C7_StatusTransitions ==
    [][draft'.status # draft.status =>
         \/ draft.status = "setup" /\ draft'.status = "active" /\ last'.op = "start_draft"
         \/ draft.status = "active" /\ draft'.status = "paused" /\ last'.op = "pause_draft"
         \/ draft.status = "paused" /\ draft'.status = "active" /\ last'.op = "resume_draft"
         \/ draft.status = "active" /\ draft'.status = "completed"
                /\ last'.op \in {"make_pick", "auto_pick"}
         \/ draft.status = "completed" /\ draft'.status = "active" /\ last'.op = "undo_last_pick"
      ]_vars

C7_Witness ==
    /\ draft.status = "completed"
    /\ last = [op |-> "auto_pick", detail |-> OK]
    /\ Cardinality(draft_picks) >= 2

\* C8: undo_last_pick by the creator on a draft that its final pick has
\* completed deletes that Pick and reopens the draft: status active,
\* current_pick the removed pick's number.
C8_UndoReopensCompleted ==
    [][(draft.status = "completed" /\ draft_picks # {} /\ undo_last_pick(Admin)) =>
         /\ draft'.status = "active"
         /\ \E p \in last_picks(draft_picks) :
                /\ draft_picks' = draft_picks \ {p}
                /\ draft'.current_pick = p.pick_number
      ]_vars

\* C9: auto_pick is rejected and changes nothing when the status is not
\* active, auto_pick_on_timeout is false or now < pick_deadline (then with
\* "Timer has not expired yet"); on an active draft with auto_pick_on_timeout,
\* a deadline that has passed and an eligible undrafted player it succeeds and
\* appends exactly one Pick, for current_team_id.
C9_AutoPickGate ==
    [][auto_pick =>
         LET waiting == draft.pick_deadline # None /\ now < draft.pick_deadline
             blocked == draft.status # "active" \/ ~draft.auto_pick_on_timeout \/ waiting
             available == Players \ {p.player_id : p \in draft_picks}
         IN /\ blocked => (last'.detail # OK /\ UNCHANGED store)
            /\ (draft.status = "active" /\ draft.auto_pick_on_timeout /\ waiting) =>
                   last'.detail = "Timer has not expired yet"
            /\ (~blocked /\ draft.pick_deadline # None /\ available # {}) =>
                   /\ last'.detail = OK
                   /\ \E p \in draft_picks' \ draft_picks :
                          /\ draft_picks' = draft_picks \cup {p}
                          /\ p.team_id = draft.current_team_id
                          /\ p.pick_number = draft.current_pick
                          /\ p.player_id \in available
      ]_vars

C9_Witness ==
    /\ draft.pick_timer_seconds > 0
    /\ last = [op |-> "auto_pick", detail |-> OK]
    /\ \E p \in draft_picks : p.pick_type = "auto" /\ p.pick_number = Cardinality(draft_picks)

\* C10: on a draft without a pick clock (pick_timer_seconds = 0, so
\* pick_deadline is null) auto_pick never records a pick.
C10_NoAutoPickWithoutClock ==
    \A p \in draft_picks : p.pick_type = "auto" => draft.pick_timer_seconds > 0

C12_StartDraft ==
    [][ start_draft =>
          IF draft.status = "setup" /\ Cardinality(draft_teams) >= 2
          THEN LET order == draft'.team_order
                   po(id) == (CHOOSE t \in draft_teams : t.id = id).pick_order
               IN /\ last'.detail = OK
                  /\ draft'.status = "active"
                  /\ Len(order) = Cardinality(draft_teams)
                  /\ {order[i] : i \in 1..Len(order)} = {t.id : t \in draft_teams}
                  /\ \A i, j \in 1..Len(order) : i < j => po(order[i]) <= po(order[j])
                  /\ draft'.current_round = 1
                  /\ draft'.current_pick = 1
                  /\ draft'.current_team_id = order[1]
                  /\ draft'.pick_deadline = IF draft.pick_timer_seconds > 0
                                            THEN now + draft.pick_timer_seconds
                                            ELSE None
                  /\ UNCHANGED <<draft_teams, draft_picks>>
          ELSE /\ last'.detail # OK
               /\ UNCHANGED store
      ]_vars

\* a timed draft right after its start
C12_Witness ==
    /\ last = [op |-> "start_draft", detail |-> OK]
    /\ draft.status = "active"
    /\ draft.current_pick = 1
    /\ draft.pick_deadline = now + draft.pick_timer_seconds
    /\ Len(draft.team_order) = 2

\* C13: a num_rounds supplied at creation is kept as is by start_draft; when it
\* is unset, start sets num_rounds = max(1, eligible_player_count div num_teams);
\* 2 teams and 5 eligible players give 2 rounds.
C13_ComputedRounds ==
    rounds.result # None =>
        /\ rounds.num_rounds # None => rounds.result = rounds.num_rounds
        /\ rounds.num_rounds = None =>
               rounds.result = Max(1, rounds.player_count \div rounds.num_teams)
        /\ (rounds.num_rounds = None /\ rounds.num_teams = 2 /\ rounds.player_count = 5) =>
               rounds.result = 2

\* C14: while the draft is active, 1 <= current_pick <= num_rounds * num_teams,
\* for every draft that create accepts (an explicit num_rounds included) and
\* every sequence of operations one at a time; so the ledger never holds more
\* than num_rounds * num_teams Picks.
C14_PointerInRange ==
    /\ draft.status = "active" =>
           /\ 1 <= draft.current_pick
           /\ draft.current_pick <= draft.num_rounds * draft.num_teams
    /\ draft.status # "setup" =>
           Cardinality(draft_picks) <= draft.num_rounds * draft.num_teams

\* C15: a make_pick for a player_id that already appears in a Pick of the draft
\* is rejected: no Pick is appended and current_round, current_pick,
\* current_team_id, pick_deadline and status are unchanged. When the draft is
\* active and the caller may pick, the answer is "Player already drafted".
C15_DraftedPlayerRejected ==
    [][ \A u \in Users, pid \in PlayerIds :
          (make_pick(u, pid) /\ \E p \in draft_picks : p.player_id = pid) =>
              /\ last'.detail # OK
              /\ UNCHANGED store
              /\ (/\ draft.status = "active"
                  /\ \E t \in draft_teams : /\ t.id = draft.current_team_id
                                             /\ u \in {draft.created_by, t.coach_user_id})
                 => last'.detail = "Player already drafted"
      ]_vars

\* an active draft with one pick has just refused a second pick of its player
C15_Witness ==
    /\ last = [op |-> "make_pick", detail |-> "Player already drafted"]
    /\ draft.status = "active"
    /\ draft.current_pick = 2
    /\ Cardinality(draft_picks) = 1

\* C16: a Pick is appended only while the draft is active: make_pick and
\* auto_pick on a setup, paused or completed draft are rejected and add nothing,
\* a setup draft has an empty ledger, and the ledger never grows while the draft
\* is paused or completed.
C16_PicksOnlyWhileActive ==
    /\ [](draft.status = "setup" => draft_picks = {})
    /\ [][ (draft_picks' \ draft_picks # {}) => draft.status = "active" ]_vars
    /\ [][ \A u \in Users, pid \in PlayerIds :
              (make_pick(u, pid) /\ draft.exists /\ draft.status # "active") =>
                  (last'.detail = "Draft is not active" /\ UNCHANGED store) ]_vars
    /\ [][ (auto_pick /\ draft.exists /\ draft.status # "active") =>
              (last'.detail = "Draft is not active" /\ UNCHANGED store) ]_vars

\* a paused draft with a pick has just refused a make_pick
C16_Witness ==
    /\ last = [op |-> "make_pick", detail |-> "Draft is not active"]
    /\ draft.status = "paused"
    /\ draft_picks # {}

\* C17: the draft becomes completed exactly when a successful pick (manual or
\* auto) is the pick numbered num_rounds * num_teams: never on an earlier pick,
\* and in the same operation. On completion pick_deadline is null, completed_at
\* is set and TeamRosters are produced; no other operation completes a draft.
C17_CompletionAtLastPick ==
    /\ [][ (draft.status # "completed" /\ draft'.status = "completed") =>
              /\ last' \in {[op |-> "make_pick", detail |-> OK],
                            [op |-> "auto_pick", detail |-> OK]}
              /\ \E p \in draft_picks' \ draft_picks :
                     p.pick_number = draft.num_rounds * draft.num_teams
              /\ draft'.pick_deadline = None
              /\ draft'.completed_at # None
              /\ team_rosters' # team_rosters ]_vars
    /\ [][ (\E p \in draft_picks' \ draft_picks :
                 p.pick_number = draft.num_rounds * draft.num_teams)
              => draft'.status = "completed" ]_vars

\* C18: on completion there is exactly one TeamRoster per team of the draft,
\* and the roster of team T lists exactly the player_ids of the Picks with
\* team_id T, in ascending pick_number order, whatever order the store returns
\* the pick documents in.
C18_RostersInPickOrder ==
    draft.status = "completed" =>
        \A t \in draft_teams :
            LET mine == {p \in draft_picks : p.team_id = t.id}
                rosters == {r \in team_rosters : r.team_name = t.team_name}
            IN /\ Cardinality(rosters) = 1
               /\ \A r \in rosters :
                     /\ Len(r.player_ids) = Cardinality(mine)
                     /\ \A i \in 1..Len(r.player_ids) : \E p \in mine :
                            /\ p.player_id = r.player_ids[i]
                            /\ Cardinality({q \in mine : q.pick_number < p.pick_number}) = i - 1

\* C19: roster assembly is an idempotent projection of the ledger: when it runs
\* again (two racing final picks that both complete the draft) there is still at
\* most one TeamRoster per team, and once the requests are served each roster
\* lists the players of its team's Picks: no stale or duplicate rosters.
C19_RostersAreProjection ==
    /\ \A r1, r2 \in team_rosters : r1.team_name = r2.team_name => r1 = r2
    /\ (\A r \in Requests : reqs[r].pc \in {"idle", "done"}) =>
           \A ro \in team_rosters : \E t \in draft_teams :
               /\ t.team_name = ro.team_name
               /\ {ro.player_ids[i] : i \in 1..Len(ro.player_ids)} =
                      {p.player_id : p \in {q \in draft_picks : q.team_id = t.id}}

\* C20: a successful undo_last_pick removes exactly the Pick with the highest
\* pick_number and leaves every other Pick unchanged; afterwards current_pick
\* is the removed pick_number, current_round = ((current_pick - 1) div
\* num_teams) + 1 and current_team_id = get_pick_team(current_pick).
C20_UndoRestoresPointer ==
    [][ ((\E u \in Users : undo_last_pick(u)) /\ last'.detail = OK) =>
          \E p \in draft_picks :
              /\ \A q \in draft_picks : q.pick_number <= p.pick_number
              /\ draft_picks' = draft_picks \ {p}
              /\ draft'.current_pick = p.pick_number
              /\ draft'.current_round = ((draft'.current_pick - 1) \div draft'.num_teams) + 1
              /\ draft'.current_team_id = get_pick_team(draft', draft'.current_pick)
      ]_vars

\* the first pick of round 2 has just been undone
C20_Witness ==
    /\ last = [op |-> "undo_last_pick", detail |-> OK]
    /\ Cardinality(draft_picks) = 2
    /\ draft.current_pick = 3
    /\ draft.current_round = 2

\* C21: after a pick of player P by make_pick or auto_pick, undo_last_pick
\* followed by drafting P again yields a Pick with the round, pick_number,
\* pick_in_round, team_id and player_id of the removed Pick, and the pointer
\* after the re-draft equals the pointer after the original pick.
C21_UndoRedraftRoundTrip ==
    [][ ((\E u \in Users : undo_last_pick(u)) /\ last'.detail = OK /\ draft.status = "active") =>
          \A p \in draft_picks \ draft_picks' :
              LET again == make_pick_data(draft', p.player_id, draft.created_by, draft_picks')
                  after == Update(draft', make_pick_updates(draft', now))
              IN /\ again.round = p.round
                 /\ again.pick_number = p.pick_number
                 /\ again.pick_in_round = p.pick_in_round
                 /\ again.team_id = p.team_id
                 /\ again.player_id = p.player_id
                 /\ after.status = draft.status
                 /\ after.current_round = draft.current_round
                 /\ after.current_pick = draft.current_pick
                 /\ after.current_team_id = draft.current_team_id
      ]_vars

\* C22: undo_last_pick is rejected, deleting no Pick and changing no draft
\* field, when the caller is not the draft creator (permission error), when
\* the status is setup, or when the ledger is empty; a coach on the clock who
\* is not the creator cannot undo.
C22_UndoRejected ==
    [][ \A u \in Users : (undo_last_pick(u) /\ draft.exists) =>
          /\ u # draft.created_by =>
                 (last'.detail = "Only draft admin can undo picks" /\ UNCHANGED store)
          /\ (draft.status = "setup" \/ draft_picks = {}) =>
                 (last'.detail # OK /\ UNCHANGED store)
      ]_vars

\* an active draft with a pick and a coach on the clock has refused an undo
C22_Witness ==
    /\ last = [op |-> "undo_last_pick", detail |-> "Only draft admin can undo picks"]
    /\ draft.status = "active"
    /\ draft_picks # {}
    /\ \E t \in draft_teams : t.id = draft.current_team_id /\ t.coach_user_id = "c1"

\* C23: between operations run one at a time, pick_deadline is non-null if and
\* only if pick_timer_seconds > 0 and the status is active: it is null in setup,
\* paused and completed, and in an active draft without a timer.
C23_DeadlineIffTimedActive ==
    (draft.pick_deadline # None) <=> (draft.pick_timer_seconds > 0 /\ draft.status = "active")

\* a timed draft, paused, after an undo
C23_Witness ==
    /\ last = [op |-> "undo_last_pick", detail |-> OK]
    /\ draft.status = "paused"
    /\ draft.pick_timer_seconds > 0
    /\ draft.pick_deadline = None

\* C24: team records are mutable only in setup: once the draft is active,
\* paused or completed, every add_team, update_team, remove_team and
\* reorder_teams call is rejected and no team record of the draft (team_name,
\* coach_user_id, pick_order, existence) changes.
C24_TeamsFrozenAfterStart ==
    [][ (/\ draft.status # "setup"
         /\ \/ \E coach \in CoachInputs : add_team(coach)
            \/ \E team_id \in TeamIds, updates \in TeamUpdateInputs : update_team(team_id, updates)
            \/ \E team_id \in TeamIds : remove_team(team_id)
            \/ \E team_ids \in ReorderInputs : reorder_teams(team_ids))
        => (last'.detail # OK /\ UNCHANGED draft_teams)
      ]_vars

\* C25: after any sequence of add_team, remove_team and reorder_teams on a
\* draft in setup, the pick_order values of the teams form a contiguous
\* permutation 1..num_teams, num_teams being the number of teams of the draft.
C25_PickOrderPermutation ==
    (draft.exists /\ draft.status = "setup") =>
        /\ draft.num_teams = Cardinality(draft_teams)
        /\ {t.pick_order : t \in draft_teams} = 1..Cardinality(draft_teams)

\* C26: once the draft is active, and ever after, len(team_order) = num_teams
\* and team_order contains each team of the draft exactly once, also when an
\* add_team or remove_team request that passed its setup check overlaps with
\* start_draft.
C26_TeamOrderCoversTeams ==
    (draft.status \in {"active", "paused", "completed"}) =>
        /\ Len(draft.team_order) = draft.num_teams
        /\ Len(draft.team_order) = Cardinality(draft_teams)
        /\ {draft.team_order[i] : i \in 1..Len(draft.team_order)} = {t.id : t \in draft_teams}

C28_PauseWinsOverPick ==
    /\ [](draft.status = "paused" => draft.pick_deadline = None)
    /\ [][ draft.status = "paused" =>
              (draft'.status # "completed" /\ draft'.pick_deadline = draft.pick_deadline) ]_vars

\* C29: resume succeeds only on a paused draft (otherwise it is rejected and
\* nothing changes) and sets status active with pick_deadline = time of resume
\* + pick_timer_seconds when the timer is positive, whatever time was left at
\* the pause; it changes no other field, and pause changes only status and
\* pick_deadline.
C29_ResumeFreshDeadline ==
    /\ [][ resume_draft =>
              IF draft.status = "paused"
              THEN /\ last'.detail = OK
                   /\ draft' = [draft EXCEPT
                          !.status = "active",
                          !.pick_deadline = IF draft.pick_timer_seconds > 0
                                            THEN now + draft.pick_timer_seconds
                                            ELSE None]
                   /\ UNCHANGED <<draft_teams, draft_picks, coach_rankings, team_rosters>>
              ELSE last'.detail # OK /\ UNCHANGED store ]_vars
    /\ [][ (pause_draft /\ last'.detail = OK) =>
              /\ draft' = [draft EXCEPT !.status = "paused", !.pick_deadline = None]
              /\ UNCHANGED <<draft_teams, draft_picks, coach_rankings, team_rosters>> ]_vars

\* a draft started at time 0 has been resumed later with a full-length clock
C29_Witness ==
    /\ last = [op |-> "resume_draft", detail |-> OK]
    /\ draft.status = "active"
    /\ now > 0
    /\ draft.pick_timer_seconds > 0
    /\ draft.pick_deadline = now + draft.pick_timer_seconds

\* C30: once start has succeeded, no operation changes team_order, num_rounds,
\* draft_type, pick_timer_seconds or auto_pick_on_timeout of the draft:
\* update_draft and delete_draft are rejected outside setup with the draft
\* unchanged, and pause, resume, make_pick, auto_pick and undo_last_pick never
\* write these fields.
C30_SettingsFrozenAfterStart ==
    /\ [][ draft.status # "setup" =>
              /\ draft'.exists
              /\ draft'.team_order = draft.team_order
              /\ draft'.num_rounds = draft.num_rounds
              /\ draft'.draft_type = draft.draft_type
              /\ draft'.pick_timer_seconds = draft.pick_timer_seconds
              /\ draft'.auto_pick_on_timeout = draft.auto_pick_on_timeout ]_vars
    /\ [][ (draft.status # "setup" /\
               ((\E updates \in UpdateInputs : update_draft(updates)) \/ delete_draft))
            => (last'.detail # OK /\ UNCHANGED store) ]_vars

\* a draft with a pick has refused an update of its settings
C30_Witness ==
    /\ last = [op |-> "update_draft", detail |-> "Cannot modify draft after it has started"]
    /\ draft.status = "active"
    /\ draft_picks # {}

\* C31: auto_pick is the same transition as make_pick: from the same draft
\* state and for the same player both append a Pick with identical round,
\* pick_number, pick_in_round, team_id and player_id and leave the draft with
\* identical status, pointer and deadline; the Picks differ only in picked_by
\* ("system" against the caller) and pick_type ("auto" against "manual").
C31_AutoPickLikeMakePick ==
    [][ (auto_pick /\ last'.detail = OK) =>
          \A p \in draft_picks' \ draft_picks :
              LET manual == make_pick_data(draft, p.player_id, draft.created_by, draft_picks)
                  after == Update(draft, make_pick_updates(draft, now))
              IN /\ p.round = manual.round
                 /\ p.pick_number = manual.pick_number
                 /\ p.pick_in_round = manual.pick_in_round
                 /\ p.team_id = manual.team_id
                 /\ p.player_id = manual.player_id
                 /\ p.picked_by = "system" /\ manual.picked_by = draft.created_by
                 /\ p.pick_type = "auto" /\ manual.pick_type = "manual"
                 /\ draft'.status = after.status
                 /\ draft'.current_round = after.current_round
                 /\ draft'.current_pick = after.current_pick
                 /\ draft'.current_team_id = after.current_team_id
                 /\ draft'.pick_deadline = after.pick_deadline
      ]_vars

\* C32: every Pick of the ledger refers to an eligible player of the draft (a
\* player of the draft's event, of its age_group when one is set); make_pick
\* with a player_id that is no eligible player is rejected and appends nothing.
C32_PicksAreEligiblePlayers ==
    /\ [](\A p \in draft_picks : p.player_id \in Players)
    /\ [][ \A u \in Users, player_id \in PlayerIds \ Players :
              make_pick(u, player_id) => (last'.detail # OK /\ UNCHANGED store) ]_vars

\* C33: with requests served one at a time, whenever the status is active or
\* paused the pointer agrees with the scheduler: current_round =
\* ((current_pick-1) div num_teams)+1 and current_team_id =
\* get_pick_team(current_pick), after any sequence of start, pause, resume,
\* make_pick, auto_pick and undo_last_pick.
C33_PointerMatchesScheduler ==
    (draft.exists /\ draft.status \in {"active", "paused"}) =>
        /\ draft.current_round = ((draft.current_pick - 1) \div draft.num_teams) + 1
        /\ draft.current_team_id = get_pick_team(draft, draft.current_pick)

\* an undo on a paused draft has re-opened pick 3, the first of round 2
C33_Witness ==
    /\ last = [op |-> "undo_last_pick", detail |-> OK]
    /\ draft.status = "paused"
    /\ draft.draft_type = "snake"
    /\ draft.current_pick = 3
    /\ draft.current_round = 2
    /\ draft.current_team_id = draft.team_order[2]
    /\ \E p \in draft_picks : p.pick_type = "auto"

\* C34: with requests served one at a time the ledger is a gap-free prefix:
\* the pick_numbers present are exactly 1..count(Picks), every Pick with
\* pick_number p has round = ((p-1) div num_teams)+1 and team_id =
\* get_pick_team(p), and in a snake draft each team holds exactly one Pick of
\* every completed round.
C34_LedgerIsPrefix ==
    LET count == Cardinality(draft_picks) IN
    /\ {p.pick_number : p \in draft_picks} = 1..count
    /\ \A p \in draft_picks :
          /\ p.round = ((p.pick_number - 1) \div draft.num_teams) + 1
          /\ p.team_id = get_pick_team(draft, p.pick_number)
    /\ draft_picks # {} /\ draft.draft_type = "snake" =>
          \A round \in 1..(count \div draft.num_teams), i \in 1..Len(draft.team_order) :
              Cardinality({p \in draft_picks : p.round = round /\ p.team_id = draft.team_order[i]}) = 1

\* an undo has cut a snake ledger of three Picks back to the two of round 1
C34_Witness ==
    /\ last = [op |-> "undo_last_pick", detail |-> OK]
    /\ draft.draft_type = "snake"
    /\ Cardinality(draft_picks) = 2
    /\ \E p \in draft_picks : p.pick_type = "auto"
    /\ draft.current_pick = 3

\* C35 as stated: when start computes num_rounds itself, the pick slots never
\* exceed the eligible player pool: num_rounds * num_teams <=
\* eligible_player_count for every number of teams >= 2 and every eligible
\* player count, fewer players than teams and zero included.
C35_SlotsWithinPool ==
    (rounds.result # None /\ (rounds.num_rounds = None \/ rounds.num_rounds = 0)) =>
        rounds.result * rounds.num_teams <= rounds.player_count

\* C35 amended: when start computes num_rounds itself and there are at least
\* as many eligible players as teams, num_rounds * num_teams <=
\* eligible_player_count and fewer than num_teams players are left over; with
\* fewer eligible players than teams (zero included) num_rounds is 1 and the
\* num_teams pick slots exceed the pool.
C35_SlotsWithinPoolOfFullRound ==
    (rounds.result # None /\ (rounds.num_rounds = None \/ rounds.num_rounds = 0)) =>
        /\ rounds.player_count >= rounds.num_teams =>
              /\ rounds.result * rounds.num_teams <= rounds.player_count
              /\ rounds.player_count - rounds.result * rounds.num_teams < rounds.num_teams
        /\ rounds.player_count < rounds.num_teams =>
              /\ rounds.result = 1
              /\ rounds.result * rounds.num_teams > rounds.player_count

\* start has computed 2 rounds for 3 teams and 7 eligible players: one is left over
C35_Witness ==
    /\ rounds.num_rounds = None
    /\ rounds.num_teams = 3
    /\ rounds.player_count = 7
    /\ rounds.result = 2

C37_TeamRequestsScoped ==
    [][ \A t \in draft_teams : t.draft_id # DraftId => t \in draft_teams' ]_vars

\* C38: undo_last_pick writes only current_round, current_pick,
\* current_team_id and status: pick_deadline, num_rounds, team_order and the
\* existing TeamRosters stay as they are.  An undo on a paused draft keeps it
\* paused with a null deadline; an undo on an active timed draft keeps the
\* deadline that was set for the undone turn's successor and grants the
\* re-opened turn no fresh clock.
C38_UndoKeepsDeadline ==
    [][ ((\E u \in Users : undo_last_pick(u)) /\ last'.detail = OK) =>
          /\ draft' = Update(draft, [ current_round |-> draft'.current_round,
                                      current_pick |-> draft'.current_pick,
                                      current_team_id |-> draft'.current_team_id,
                                      status |-> draft'.status ])
          /\ draft'.pick_deadline = draft.pick_deadline
          /\ draft'.num_rounds = draft.num_rounds
          /\ draft'.team_order = draft.team_order
          /\ team_rosters' = team_rosters
          /\ draft'.status = draft.status
          /\ draft.status = "paused" => draft'.pick_deadline = None
          /\ (draft.status = "active" /\ draft.pick_timer_seconds > 0) =>
                 draft'.pick_deadline # None
      ]_vars

\* an undo on an active timed draft, one second after the undone pick: the
\* re-opened turn runs on the deadline of that pick's successor, which has
\* passed already
C38_Witness ==
    /\ last = [op |-> "undo_last_pick", detail |-> OK]
    /\ draft.status = "active"
    /\ draft.pick_timer_seconds > 0
    /\ draft.pick_deadline # None
    /\ draft.pick_deadline < now + draft.pick_timer_seconds
    /\ draft.pick_deadline <= now
    /\ draft.current_pick = Cardinality(draft_picks) + 1

\* C39: the pick clock does not gate manual picks: once now >= pick_deadline
\* and no auto_pick has been served, make_pick by the creator or by the coach
\* on the clock succeeds exactly as before the deadline, and the turn stays
\* with current_team_id until make_pick or auto_pick consumes it: it is never
\* skipped or forfeited.
C39_ClockDoesNotGatePicks ==
    [][ (draft.status = "active" /\ draft.pick_deadline # None /\ now >= draft.pick_deadline) =>
          /\ \A u \in Users, player_id \in PlayerIds :
                ( /\ make_pick(u, player_id)
                  /\ \/ u = draft.created_by
                     \/ \E t \in team_doc(draft_teams, draft.current_team_id) : t.coach_user_id = u
                  /\ ~already_drafted(draft_picks, player_id) )
                => /\ last'.detail = OK
                   /\ \E p \in draft_picks' \ draft_picks :
                         /\ p.pick_number = draft.current_pick
                         /\ p.team_id = draft.current_team_id
                         /\ p.player_id = player_id
                         /\ p.picked_by = u
                   /\ draft' = Update(draft, make_pick_updates(
                                   Update(draft, [pick_deadline |-> now + 1]), now))
          /\ ( \/ draft'.current_pick # draft.current_pick
               \/ draft'.current_team_id # draft.current_team_id
               \/ draft'.status # draft.status )
             => \E p \in draft_picks' \ draft_picks :
                   /\ p.pick_number = draft.current_pick
                   /\ p.team_id = draft.current_team_id
      ]_vars

\* the coach of the first team has made the first pick at time 1, after the
\* deadline that start_draft set at time 0 had passed
C39_Witness ==
    /\ last = [op |-> "make_pick", detail |-> OK]
    /\ now = 1
    /\ draft.status = "active"
    /\ draft.pick_deadline = now + draft.pick_timer_seconds
    /\ draft.current_pick = 2
    /\ \E p \in draft_picks : p.pick_number = 1 /\ p.picked_by = "c1" /\ p.pick_type = "manual"
    /\ Cardinality(draft_picks) = 1

====
